---- MODULE Spec2Model ----
(***************************************************************************)
(* Model of bdilab_model_monitor_server/server.py: the CloudEvents server  *)
(* (CEServer), its POST / handler (EventHandler.post), the relay           *)
(* (sendCloudEvent) and the two GET routes.                                *)
(*                                                                         *)
(* Python values are represented as follows: None is the string "None";    *)
(* an optional object is a record with a presence flag; a JSON value       *)
(* returned by the model is the string of its Python repr.                 *)
(***************************************************************************)
EXTENDS Integers, Sequences, FiniteSets, TLC

\* ------------------------------------------------------------------ bounds
\* POST / requests that may arrive
NumRequests == 2
\* longest predicted / actual sequence in a payload
MaxLen == 1
\* longest metrics batch a model returns
MaxBatch == 2

\* ------------------------------------------------------- program constants
None == "None"

DEFAULT_HTTP_PORT == 8080

DEFAULT_LABELS == {<<"deployment_namespace", "NOT_IMPLEMENTED">>}

BAD_REQUEST == 400

\* Protocol.common_http is the only protocol get_request_handler knows.
common_http == "common_http"
Protocols == {common_http, "other_protocol"}

\* Values a caller may pass as reply_url (None is the constructor's default).
ReplyUrls == {None, "", "http://consumer"}

\* CEModel instances; ModelName gives model.name.
Models == {"m_empty", "mA", "mB"}
ModelName(m) == CASE m = "m_empty" -> ""
                  [] m = "mA" -> "a"
                  [] m = "mB" -> "b"
                  [] OTHER -> None

Requests == 1..NumRequests

\* ------------------------------------------------------------ request input
\* The raw body of a POST /, by what the handler's steps make of it:
\*   bad_utf8   bytes that are no UTF-8 text (b'\xff')
\*   bad_json   text that is no JSON document (b'{')
\*   invalid    JSON that fails the extractor's validate()
\*   no_field   JSON that passes validate() but lacks a field extract needs
\*   payload    JSON carrying predicted (npred values) and actual (nact values)
Bodies ==
    {[kind |-> k, npred |-> 0, nact |-> 0] :
        k \in {"bad_utf8", "bad_json", "invalid", "no_field"}}
    \cup {[kind |-> "payload", npred |-> p, nact |-> a] :
            p \in 0..MaxLen, a \in 0..MaxLen}

NoBody == [kind |-> None, npred |-> 0, nact |-> 0]

\* The CloudEvent the headers and body of the request carry: its id (absent,
\* empty or given) and its extension attributes; parsed = FALSE is a request
\* the marshaller cannot turn into an event.
\* <<id, extensions>> of the events sent.
EventHeaders == {<<None, {}>>, <<"", {<<"a", "1">>, <<"b", "2">>}>>,
                 <<"e1", {}>>, <<"e1", {<<"a", "1">>, <<"b", "2">>}>>}
NoEvent == [parsed |-> FALSE, id |-> None, ext |-> {}, data |-> None,
            source |-> None, type |-> None, contenttype |-> None]
InboundEvents ==
    {NoEvent} \cup
    {[parsed |-> TRUE, id |-> h[1], ext |-> h[2], data |-> "request body",
      source |-> "caller", type |-> "request", contenttype |-> "application/json"] :
        h \in EventHeaders}

\* Identifiers uuid.uuid1().hex can return: non-empty, never an inbound id.
Uuid1Hex == {"uuid1-x"}

\* ----------------------------------------------------------- model response
\* ModelResponse.data: None, or a JSON-serializable value (falsy or truthy).
Data == {None, "[]", "{'is_drift': 1}"}

\* json.dumps of such a value.
json_dumps(d) == CASE d = "[]" -> "[]"
                   [] d = "{'is_drift': 1}" -> "{\"is_drift\": 1}"
                   [] d = None -> "null"

\* Metric records the model may report while it handles request r: a gauge
\* (its value is r, so that every update shows in the registry) and a record
\* whose value is not a number.
GaugeRec(r) == [name |-> "g", type |-> "gauge", vtype |-> "int", value |-> r, labels |-> {}]
BadRec == [name |-> "g", type |-> "gauge", vtype |-> "str", value |-> 0, labels |-> {}]
MetricRecords(r) == {GaugeRec(r), BadRec}

Batches(r) == UNION {[1..n -> MetricRecords(r)] : n \in 0..MaxBatch}

\* ModelResponse.metrics: None or a batch.
NoMetrics == [is_none |-> TRUE, batch |-> <<>>]
MetricsValues(r) ==
    {NoMetrics} \cup {[is_none |-> FALSE, batch |-> b] : b \in Batches(r)}

\* What process_event returns: a ModelResponse, or None (is_none).
NoResponse == [returned |-> FALSE, is_none |-> FALSE, data |-> None, metrics |-> NoMetrics]
NoneResponse == [returned |-> TRUE, is_none |-> TRUE, data |-> None, metrics |-> NoMetrics]
ModelResponses(r) ==
    {[returned |-> TRUE, is_none |-> FALSE, data |-> d, metrics |-> m] :
        d \in Data, m \in MetricsValues(r)}

\* ---------------------------------------------------------------- metrics
\* prometheus_metrics.metrics (validate_metrics, BdilabMetrics) is not part of
\* the sources at hand; it is modelled from the specification, section 4.3.
MetricTypes == {"gauge", "counter"}

\* A record is well formed: a non-empty name, a recognized type, a number.
ValidRecord(rec) ==
    /\ rec.name # ""
    /\ rec.type \in MetricTypes
    /\ rec.vtype = "int"

\* validate(batch) -> bool, all or nothing.
validate_metrics(batch) == \A i \in 1..Len(batch) : ValidRecord(batch[i])

\* The registry key of a record: (name, labels with the default labels).
MetricKey(rec) == <<rec.name, rec.labels \cup DEFAULT_LABELS>>
MetricKeys == {MetricKey(BadRec)}

\* The registry at server startup: no value for any key (<<>> is "no value").
EmptyRegistry == [k \in MetricKeys |-> <<>>]

\* One record merged: a gauge overwrites, a counter accumulates.
MergeRecord(reg, rec) ==
    LET k == MetricKey(rec)
        old == IF reg[k] = <<>> THEN 0 ELSE reg[k][1]
    IN  [reg EXCEPT ![k] = IF rec.type = "counter" THEN <<old + rec.value>>
                           ELSE <<rec.value>>]

\* BdilabMetrics.update(batch, event_type): every record merged, in order.
RECURSIVE bdilab_update(_, _)
bdilab_update(reg, batch) ==
    IF batch = <<>> THEN reg
    ELSE bdilab_update(MergeRecord(reg, Head(batch)), Tail(batch))

\* BdilabMetrics.generate_metrics(): the whole registry in the text format,
\* with its content type.
generate_metrics(reg) ==
    [body |-> {<<k, reg[k][1]>> : k \in {x \in MetricKeys : reg[x] # <<>>}},
     mimetype |-> "text/plain; version=0.0.4"]

\* ----------------------------------------------------------------- relay
\* What requests.post(url, ...) can do: raise (no response), or return a
\* response with a status code.  A url of None is no URL at all.
ConnectionError == [exc |-> "ConnectionError", status_code |-> 0]
MissingSchema == [exc |-> "MissingSchema", status_code |-> 0]
PostOutcomes(url) ==
    IF url = None THEN {MissingSchema}
    ELSE {ConnectionError} \cup
         {[exc |-> None, status_code |-> c] : c \in {200, 304, 503}}

\* Response.raise_for_status(): raises for a 4xx or a 5xx status.
raise_for_status(code) == 400 <= code /\ code < 600

\* sendCloudEvent(event, url) raises (TRUE) or returns (FALSE) on an outcome.
sendCloudEvent(outcome) ==
    \/ outcome.exc # None
    \/ raise_for_status(outcome.status_code)

\* ------------------------------------------------------------------ state
VARIABLES
    protocol,           \* CEServer.protocol
    reply_url,          \* CEServer.reply_url
    registered_model,   \* CEServer.registered_model (None or a model)
    registered,         \* history: the models register_model has accepted
    app,                \* the tornado Application being served, if any
    http_server,        \* CEServer._http_server: created, port bound
    registry,           \* CEServer.bdilab_metrics: the metrics registry
    last_call,          \* the CEServer method call being made and how it ends
    pc,                 \* per request: where EventHandler.post stands
    req,                \* per request: the handler's locals and its outcome
    running,            \* the request whose handler the IOLoop is running (0: none)
    get_resp            \* the response of the GET handler being finished

vars == <<protocol, reply_url, registered_model, registered, app, http_server,
          registry, last_call, pc, req, running, get_resp>>

server_vars == <<protocol, reply_url, registered_model, registered, app,
                 http_server, last_call>>

NoApp == [created |-> FALSE, protocol |-> None, model |-> None, reply_url |-> None]
NoServer == [bound |-> FALSE, port |-> 0]
NoCall == [op |-> None, model |-> None, raised |-> FALSE]
NoGet == [route |-> None, body |-> {}, content_type |-> None]
NoError == [type |-> None, status_code |-> 0]

\* The handler's locals before post() has run a line.
BlankRequest ==
    [body |-> NoBody,           \* self.request.body
     inputs |-> <<>>,           \* <<len(y_pred), len(y_true)>> once extracted
     event |-> NoEvent,         \* the inbound CloudEvent
     response |-> NoResponse,   \* what process_event returned
     invoked |-> <<>>,          \* the models whose process_event was called
     sent |-> <<>>,             \* the relay deliveries attempted
     error |-> NoError,         \* the exception that ended the handler
     status |-> 0,              \* the HTTP status of the response
     written |-> <<>>,          \* the chunks written to the response body
     reg0 |-> EmptyRegistry]    \* the registry when the handler started

\* CEServer.__init__: any protocol, any reply_url; nothing registered, no
\* application, an empty registry.
Init ==
    /\ protocol \in Protocols
    /\ reply_url \in ReplyUrls
    /\ registered_model = None
    /\ registered = {}
    /\ app = NoApp
    /\ http_server = NoServer
    /\ registry = EmptyRegistry
    /\ last_call = NoCall
    /\ pc = [r \in Requests |-> "pending"]
    /\ req = [r \in Requests |-> BlankRequest]
    /\ running = 0
    /\ get_resp = NoGet

\* The single thread (one worker, one IOLoop) is in no handler and in no
\* CEServer method: handlers and methods run one at a time, start to end.
Idle == running = 0 /\ get_resp = NoGet /\ last_call = NoCall

\* -------------------------------------------------------- CEServer methods
\* The dict create_application hands to EventHandler.initialize.
Application(m) ==
    [created |-> TRUE, protocol |-> protocol, model |-> m, reply_url |-> reply_url]

\* Mutant: only a name of None is refused.
NameIsNone(m) == ModelName(m) = None

\* register_model's test of the name: "if not model.name".
NameMissing(m) == ModelName(m) = "" \/ ModelName(m) = None

register_model(m) ==
    /\ Idle
    /\ IF NameMissing(m)
       THEN /\ last_call' = [op |-> "register_model", model |-> m, raised |-> TRUE]
            /\ UNCHANGED <<registered_model, registered>>
       ELSE /\ last_call' = [op |-> "register_model", model |-> m, raised |-> FALSE]
            /\ registered_model' = m
            /\ registered' = registered \cup {m}
    /\ UNCHANGED <<protocol, reply_url, app, http_server, registry, pc, req,
                   running, get_resp>>

create_application ==
    /\ Idle
    /\ app' = Application(registered_model)
    /\ last_call' = [op |-> "create_application", model |-> None, raised |-> FALSE]
    /\ UNCHANGED <<protocol, reply_url, registered_model, registered, http_server,
                   registry, pc, req, running, get_resp>>

\* Mutant: start serves the model it is given without registering it.
startUnregistered(m) ==
    /\ Idle
    /\ ~http_server.bound
    /\ last_call' = [op |-> "start", model |-> m, raised |-> FALSE]
    /\ app' = Application(m)
    /\ http_server' = [bound |-> TRUE, port |-> DEFAULT_HTTP_PORT]
    /\ UNCHANGED <<protocol, reply_url, registered_model, registered, registry,
                   pc, req, running, get_resp>>

\* start(model): register, create the application, bind, run the loop.
start(m) ==
    /\ Idle
    /\ ~http_server.bound
    /\ IF NameMissing(m)
       THEN /\ last_call' = [op |-> "start", model |-> m, raised |-> TRUE]
            /\ UNCHANGED <<registered_model, registered, app, http_server>>
       ELSE /\ last_call' = [op |-> "start", model |-> m, raised |-> FALSE]
            /\ registered_model' = m
            /\ registered' = registered \cup {m}
            /\ app' = Application(m)
            /\ http_server' = [bound |-> TRUE, port |-> DEFAULT_HTTP_PORT]
    /\ UNCHANGED <<protocol, reply_url, registry, pc, req, running, get_resp>>

\* The call is over: the method returned or raised, or (start) the IOLoop
\* took over the thread.
CallDone ==
    /\ last_call # NoCall
    /\ last_call' = NoCall
    /\ UNCHANGED <<protocol, reply_url, registered_model, registered, app,
                   http_server, registry, pc, req, running, get_resp>>

\* ------------------------------------------------------ EventHandler.post
\* Exceptions the handler can end with.
HTTPError(code) == [type |-> "HTTPError", status_code |-> code]
Exception(t) == [type |-> t, status_code |-> 0]

\* tornado's answer to an exception out of a handler: the status of a
\* tornado.web.HTTPError, 500 for anything else; what was written is dropped.
ErrorStatus(exc) == IF exc.type = "HTTPError" THEN exc.status_code ELSE 500

Raised(rq, exc) ==
    [rq EXCEPT !.error = exc, !.status = ErrorStatus(exc), !.written = <<>>]

\* Request r's handler goes on to line `next` with locals rq.
Goto(r, next, rq) ==
    /\ pc' = [pc EXCEPT ![r] = next]
    /\ req' = [req EXCEPT ![r] = rq]

\* Request r's handler ends with exception exc.
Raise(r, exc) == Goto(r, "failed", Raised(req[r], exc))

At(r, line) == running = r /\ pc[r] = line

\* Mutant: a request is taken up while the handler of another is running.
DispatchConcurrent(r) ==
    /\ get_resp = NoGet /\ last_call = NoCall
    /\ app.created
    /\ pc[r] = "pending"
    /\ \A q \in Requests : q < r => pc[q] # "pending"
    /\ running' = r
    /\ \E b \in Bodies :
         Goto(r, "parse", [BlankRequest EXCEPT !.body = b, !.reg0 = registry])
    /\ UNCHANGED <<server_vars, registry, get_resp>>

\* The IOLoop hands a pending request to an EventHandler of the served
\* application; post() runs to its end before anything else does. Requests
\* are numbered in the order the loop takes them up.
Dispatch(r) ==
    /\ Idle
    /\ app.created
    /\ pc[r] = "pending"
    /\ \A q \in Requests : q < r => pc[q] # "pending"
    /\ running' = r
    /\ \E b \in Bodies :
         Goto(r, "parse", [BlankRequest EXCEPT !.body = b, !.reg0 = registry])
    /\ UNCHANGED <<server_vars, registry, get_resp>>

\* json.loads(self.request.body): a JSONDecodeError becomes HTTPError(400);
\* bytes that do not decode raise UnicodeDecodeError, which is not caught.
PostParse(r) ==
    /\ At(r, "parse")
    /\ CASE req[r].body.kind = "bad_json" -> Raise(r, HTTPError(BAD_REQUEST))
         [] req[r].body.kind = "bad_utf8" -> Raise(r, Exception("UnicodeDecodeError"))
         [] OTHER -> Goto(r, "resolve", req[r])
    /\ UNCHANGED <<server_vars, registry, running, get_resp>>

\* get_request_handler(protocol, body) finds the handler of the protocol.
get_request_handler(p) == p = common_http

PostResolve(r) ==
    /\ At(r, "resolve")
    /\ IF get_request_handler(app.protocol)
       THEN Goto(r, "validate", req[r])
       ELSE Raise(r, Exception("Exception: Unknown protocol"))
    /\ UNCHANGED <<server_vars, registry, running, get_resp>>

\* CommonRequestHandler is not part of the sources at hand; validate and
\* extract_request are modelled from the specification, sections 4.1, 4.2, 8.
\* validate(): a payload that is not well formed is a bad request.
validate(body) == body.kind # "invalid"

\* extract_request(): fails when a field is absent or the two sequences
\* cannot be matched (different lengths).
extract_request(body) == body.kind = "payload" /\ body.npred = body.nact

\* Mutant: a failed validation is an ordinary exception (a 500).
PostValidateServerError(r) ==
    /\ At(r, "validate")
    /\ IF validate(req[r].body)
       THEN Goto(r, "extract", req[r])
       ELSE Raise(r, Exception("ValidationError"))
    /\ UNCHANGED <<server_vars, registry, running, get_resp>>

PostValidate(r) ==
    /\ At(r, "validate")
    /\ IF validate(req[r].body)
       THEN Goto(r, "extract", req[r])
       ELSE Raise(r, HTTPError(BAD_REQUEST))
    /\ UNCHANGED <<server_vars, registry, running, get_resp>>

\* Mutant: a failed extraction is swallowed and the handler goes on.
PostExtractLenient(r) ==
    /\ At(r, "extract")
    /\ Goto(r, "envelope",
            [req[r] EXCEPT !.inputs = <<req[r].body.npred, req[r].body.nact>>])
    /\ UNCHANGED <<server_vars, registry, running, get_resp>>

PostExtract(r) ==
    /\ At(r, "extract")
    /\ IF extract_request(req[r].body)
       THEN Goto(r, "envelope",
                 [req[r] EXCEPT !.inputs = <<req[r].body.npred, req[r].body.nact>>])
       ELSE Raise(r, Exception("MalformedPayload"))
    /\ UNCHANGED <<server_vars, registry, running, get_resp>>

\* Mutant: a request that is no event is handled all the same.
PostEnvelopeLenient(r) ==
    /\ At(r, "envelope")
    /\ \E e \in InboundEvents : Goto(r, "invoke", [req[r] EXCEPT !.event = e])
    /\ UNCHANGED <<server_vars, registry, running, get_resp>>

\* http_marshaller.FromRequest(event, headers, body, json.loads)
PostEnvelope(r) ==
    /\ At(r, "envelope")
    /\ \E e \in InboundEvents :
         IF e.parsed
         THEN Goto(r, "invoke", [req[r] EXCEPT !.event = e])
         ELSE Raise(r, Exception("UnsupportedEvent"))
    /\ UNCHANGED <<server_vars, registry, running, get_resp>>

\* Mutant: a model call that raises is tried once more.
PostInvokeRetry(r) ==
    /\ At(r, "invoke")
    /\ IF app.model = None
       THEN Raise(r, Exception("AttributeError"))
       ELSE LET called == [req[r] EXCEPT !.invoked = Append(@, app.model)]
            IN  \/ \E resp \in ModelResponses(r) \cup {NoneResponse} :
                     Goto(r, "metrics", [called EXCEPT !.response = resp])
                \/ IF req[r].invoked = <<>>
                   THEN Goto(r, "invoke", called)
                   ELSE Goto(r, "failed", Raised(called, Exception("ModelError")))
    /\ UNCHANGED <<server_vars, registry, running, get_resp>>

\* The headers and the arrays are built, then self.model.process_event is
\* called: on no model (None) the call is an AttributeError; a model returns
\* a ModelResponse or None, or raises.
PostInvoke(r) ==
    /\ At(r, "invoke")
    /\ IF app.model = None
       THEN Raise(r, Exception("AttributeError"))
       ELSE LET called == [req[r] EXCEPT !.invoked = Append(@, app.model)]
            IN  \/ \E resp \in ModelResponses(r) \cup {NoneResponse} :
                     Goto(r, "metrics", [called EXCEPT !.response = resp])
                \/ Goto(r, "failed", Raised(called, Exception("ModelError")))
    /\ UNCHANGED <<server_vars, registry, running, get_resp>>

\* Mutant: the well-formed records of a rejected batch are merged all the same.
PostMetricsPartial(r) ==
    /\ At(r, "metrics")
    /\ LET resp == req[r].response IN
       IF resp.is_none
       THEN Raise(r, Exception("AttributeError")) /\ UNCHANGED registry
       ELSE /\ Goto(r, "relay", req[r])
            /\ IF ~resp.metrics.is_none
               THEN registry' = bdilab_update(registry,
                                              SelectSeq(resp.metrics.batch, ValidRecord))
               ELSE UNCHANGED registry
    /\ UNCHANGED <<server_vars, running, get_resp>>

\* Mutant: a rejected batch ends the request with an error.
PostMetricsAbort(r) ==
    /\ At(r, "metrics")
    /\ LET resp == req[r].response IN
       IF resp.is_none
       THEN Raise(r, Exception("AttributeError")) /\ UNCHANGED registry
       ELSE IF ~resp.metrics.is_none /\ ~validate_metrics(resp.metrics.batch)
            THEN Raise(r, Exception("InvalidMetricsBatch")) /\ UNCHANGED registry
            ELSE /\ Goto(r, "relay", req[r])
                 /\ IF ~resp.metrics.is_none
                    THEN registry' = bdilab_update(registry, resp.metrics.batch)
                    ELSE UNCHANGED registry
    /\ UNCHANGED <<server_vars, running, get_resp>>

\* response.metrics: validated, then merged into the registry or dropped.
PostMetrics(r) ==
    /\ At(r, "metrics")
    /\ LET resp == req[r].response IN
       IF resp.is_none
       THEN Raise(r, Exception("AttributeError")) /\ UNCHANGED registry
       ELSE /\ Goto(r, "relay", req[r])
            /\ IF ~resp.metrics.is_none /\ validate_metrics(resp.metrics.batch)
               THEN registry' = bdilab_update(registry, resp.metrics.batch)
               ELSE UNCHANGED registry
    /\ UNCHANGED <<server_vars, running, get_resp>>

\* Mutant: the reply event always gets a fresh id and no extensions.
ReplyEventFresh(event, data, fresh) ==
    [parsed |-> TRUE, id |-> fresh, ext |-> {}, data |-> data,
     source |-> "event_source", type |-> "event_type",
     contenttype |-> "application/json"]

\* The reply event: the response's data, the inbound id (a fresh one when it
\* is absent or empty), the server's source and type, the inbound extensions.
ReplyEvent(event, data, fresh) ==
    [parsed |-> TRUE,
     id |-> IF event.id = None \/ event.id = "" THEN fresh ELSE event.id,
     ext |-> event.ext,
     data |-> data,
     source |-> "event_source",
     type |-> "event_type",
     contenttype |-> "application/json"]

\* "if not self.reply_url == ''"
RelayActive(url) == ~(url = "")

\* Mutant: a failed delivery takes the request's metrics update back.
PostRelayRollback(r) ==
    /\ At(r, "relay")
    /\ LET data == req[r].response.data IN
       IF data = None
       THEN Goto(r, "done", [req[r] EXCEPT !.status = 200])
       ELSE IF RelayActive(app.reply_url)
            THEN \E fresh \in Uuid1Hex : \E o \in PostOutcomes(app.reply_url) :
                   LET revent == ReplyEvent(req[r].event, data, fresh)
                       tried == [req[r] EXCEPT !.sent =
                                   Append(@, [event |-> revent,
                                              url |-> app.reply_url,
                                              outcome |-> o])]
                   IN  IF sendCloudEvent(o)
                       THEN Goto(r, "failed",
                                 Raised(tried, Exception(IF o.exc # None THEN o.exc
                                                         ELSE "requests.HTTPError")))
                       ELSE Goto(r, "respond", tried)
            ELSE Goto(r, "respond", req[r])
    /\ registry' = IF pc'[r] = "failed" THEN req[r].reg0 ELSE registry
    /\ UNCHANGED <<server_vars, running, get_resp>>

\* Mutant: a failed delivery is tried once more.
PostRelayRetry(r) ==
    /\ At(r, "relay")
    /\ LET data == req[r].response.data IN
       IF data = None
       THEN Goto(r, "done", [req[r] EXCEPT !.status = 200])
       ELSE IF RelayActive(app.reply_url)
            THEN \E fresh \in Uuid1Hex : \E o \in PostOutcomes(app.reply_url) :
                   LET revent == ReplyEvent(req[r].event, data, fresh)
                       tried == [req[r] EXCEPT !.sent =
                                   Append(@, [event |-> revent,
                                              url |-> app.reply_url,
                                              outcome |-> o])]
                   IN  IF sendCloudEvent(o) /\ req[r].sent = <<>>
                       THEN Goto(r, "relay", tried)
                       ELSE IF sendCloudEvent(o)
                       THEN Goto(r, "failed",
                                 Raised(tried, Exception(IF o.exc # None THEN o.exc
                                                         ELSE "requests.HTTPError")))
                       ELSE Goto(r, "respond", tried)
            ELSE Goto(r, "respond", req[r])
    /\ UNCHANGED <<server_vars, registry, running, get_resp>>

\* response.data is not None: relay when a reply_url is active, then write.
PostRelay(r) ==
    /\ At(r, "relay")
    /\ LET data == req[r].response.data IN
       IF data = None
       THEN Goto(r, "done", [req[r] EXCEPT !.status = 200])
       ELSE IF RelayActive(app.reply_url)
            THEN \E fresh \in Uuid1Hex : \E o \in PostOutcomes(app.reply_url) :
                   LET revent == ReplyEvent(req[r].event, data, fresh)
                       tried == [req[r] EXCEPT !.sent =
                                   Append(@, [event |-> revent,
                                              url |-> app.reply_url,
                                              outcome |-> o])]
                   IN  IF sendCloudEvent(o)
                       THEN Goto(r, "failed",
                                 Raised(tried, Exception(IF o.exc # None THEN o.exc
                                                         ELSE "requests.HTTPError")))
                       ELSE Goto(r, "respond", tried)
            ELSE Goto(r, "respond", req[r])
    /\ UNCHANGED <<server_vars, registry, running, get_resp>>

\* Mutant: the data is written as it is, not JSON-encoded.
PostRespondRaw(r) ==
    /\ At(r, "respond")
    /\ Goto(r, "done", [req[r] EXCEPT !.written = Append(@, req[r].response.data),
                                       !.status = 200])
    /\ UNCHANGED <<server_vars, registry, running, get_resp>>

\* self.write(json.dumps(response.data)); post() returns.
PostRespond(r) ==
    /\ At(r, "respond")
    /\ Goto(r, "done", [req[r] EXCEPT !.written = Append(@, json_dumps(req[r].response.data)),
                                       !.status = 200])
    /\ UNCHANGED <<server_vars, registry, running, get_resp>>

\* tornado finishes the request: the response goes out and the handler, with
\* its locals, is gone.
Finish(r) ==
    /\ running = r
    /\ pc[r] \in {"done", "failed"}
    /\ running' = 0
    /\ Goto(r, "finished", BlankRequest)
    /\ UNCHANGED <<server_vars, registry, get_resp>>

\* ------------------------------------------------------------- GET routes
\* ProtocolHandler.get
ProtocolGet ==
    /\ Idle
    /\ app.created
    /\ get_resp' = [route |-> "/protocol", body |-> {app.protocol},
                    content_type |-> "text/html"]
    /\ UNCHANGED <<server_vars, registry, pc, req, running>>

\* MetricsHandler.get
MetricsGet ==
    /\ Idle
    /\ app.created
    /\ LET m == generate_metrics(registry)
       IN  get_resp' = [route |-> "/v1/metrics", body |-> m.body,
                        content_type |-> m.mimetype]
    /\ UNCHANGED <<server_vars, registry, pc, req, running>>

\* tornado finishes the GET request.
FinishGet ==
    /\ get_resp # NoGet
    /\ get_resp' = NoGet
    /\ UNCHANGED <<server_vars, registry, pc, req, running>>

\* ---------------------------------------------------------- specification
Next ==
    \/ \E m \in Models : register_model(m)
    \/ create_application
    \/ \E m \in Models : start(m)
    \/ CallDone
    \/ \E r \in Requests : Dispatch(r)
    \/ \E r \in Requests : PostParse(r)
    \/ \E r \in Requests : PostResolve(r)
    \/ \E r \in Requests : PostValidate(r)
    \/ \E r \in Requests : PostExtract(r)
    \/ \E r \in Requests : PostEnvelope(r)
    \/ \E r \in Requests : PostInvoke(r)
    \/ \E r \in Requests : PostMetrics(r)
    \/ \E r \in Requests : PostRelay(r)
    \/ \E r \in Requests : PostRespond(r)
    \/ \E r \in Requests : Finish(r)
    \/ ProtocolGet
    \/ MetricsGet
    \/ FinishGet

Spec == Init /\ [][Next]_vars

\* One line of a running post() after the other: the handler is synchronous
\* code on the only thread of the only process, so once entered it runs on
\* whenever the call it stands at (the model, requests.post) returns.
HandlerStep ==
    \E r \in Requests :
        \/ PostParse(r)
        \/ PostResolve(r)
        \/ PostValidate(r)
        \/ PostExtract(r)
        \/ PostEnvelope(r)
        \/ PostInvoke(r)
        \/ PostMetrics(r)
        \/ PostRelay(r)
        \/ PostRespond(r)

\* The server with a handler that is not left standing: every call a handler
\* makes returns, with a result or an error.
SpecLive == Spec /\ WF_vars(HandlerStep)

\* ================================================================= claims
Terminal(r) == running = r /\ pc[r] \in {"done", "failed"}
Failed(r) == running = r /\ pc[r] = "failed"
Done(r) == running = r /\ pc[r] = "done"

\* The request's model response carries a metrics batch that fails validation.
RejectedBatch(r) ==
    /\ running = r
    /\ req[r].response.returned
    /\ ~req[r].response.is_none
    /\ ~req[r].response.metrics.is_none
    /\ ~validate_metrics(req[r].response.metrics.batch)

\* The handler is past its metrics step.
PastMetrics(r) ==
    /\ running = r
    /\ req[r].response.returned
    /\ ~req[r].response.is_none
    /\ pc[r] \in {"relay", "respond", "done", "failed"}

\* C1 (as claimed): a request whose body is not valid JSON ends with a 400;
\* the model is not invoked, the registry is not updated, nothing is relayed.
C1_MalformedJsonIs400 ==
    \A r \in Requests :
        (running = r /\ req[r].body.kind \in {"bad_json", "bad_utf8"}) =>
            /\ req[r].invoked = <<>>
            /\ req[r].sent = <<>>
            /\ registry = req[r].reg0
            /\ Terminal(r) => (Failed(r) /\ req[r].status = 400)

\* C2: while and after a request whose model response carries a batch that
\* fails validation is handled, the registry is what it was when the request
\* started: no record of the batch is applied.
C2_RejectedBatchLeavesRegistry ==
    \A r \in Requests : RejectedBatch(r) => registry = req[r].reg0

\* C2 witness: the handler is past its metrics step with a batch that holds a
\* well-formed record and a malformed one, and a registry that differs from
\* what the well-formed record would make it.
C2_Witness ==
    \E r \in Requests :
        /\ RejectedBatch(r)
        /\ PastMetrics(r)
        /\ req[r].response.metrics.batch = <<GaugeRec(r), BadRec>>
        /\ registry # bdilab_update(registry, <<GaugeRec(r)>>)

\* The outcome of a request that is past its model call, as the data, the
\* reply_url and the delivery decide it.
OutcomeWithoutMetrics(r) ==
    LET data == req[r].response.data
        relayed == data # None /\ RelayActive(app.reply_url)
        delivered == relayed /\ req[r].sent # <<>> /\ ~sendCloudEvent(req[r].sent[1].outcome)
    IN  /\ Len(req[r].sent) = IF relayed THEN 1 ELSE 0
        /\ Failed(r) <=> (relayed /\ ~delivered)
        /\ Done(r) => /\ req[r].status = 200
                      /\ req[r].written = IF data = None THEN <<>>
                                          ELSE <<json_dumps(data)>>
        /\ Failed(r) => req[r].status = 500 /\ req[r].written = <<>>

\* C3: a request whose metrics batch was rejected goes on to the relay and
\* respond steps and ends as the request without metrics does: the same
\* relay attempt, the same failure or the same response body.
C3_RejectedBatchDoesNotAbort ==
    \A r \in Requests :
        (PastMetrics(r) /\ Terminal(r)
            /\ (RejectedBatch(r) \/ req[r].response.metrics.is_none))
        => OutcomeWithoutMetrics(r)

\* C3 also: the metrics step itself never ends a request whose batch it rejects.
C3_Step ==
    \A r \in Requests :
        RejectedBatch(r) =>
            /\ pc[r] \in {"metrics", "relay", "respond", "done", "failed"}
            /\ Failed(r) => req[r].sent # <<>>

\* C3, both parts.
C3_InvalidBatchNeverAborts == C3_RejectedBatchDoesNotAbort /\ C3_Step

\* C3 witness: a request with a rejected batch has relayed and written its data.
C3_Witness ==
    \E r \in Requests :
        /\ RejectedBatch(r)
        /\ Done(r)
        /\ req[r].sent # <<>>
        /\ req[r].written # <<>>

\* The delivery an attempt made failed: no response, or a response that is
\* not a 2xx.
DeliveryFailed(o) == o.exc # None \/ ~(200 <= o.status_code /\ o.status_code < 300)

\* C4 (as claimed): with data present and a relay destination configured, a
\* delivery that fails (transport failure or a response that is not 2xx) ends
\* the request with a server error and the data is not written.
C4_RelayFailureAborts ==
    \A r \in Requests :
        (Terminal(r) /\ req[r].sent # <<>> /\ DeliveryFailed(req[r].sent[1].outcome))
        => /\ Failed(r)
           /\ req[r].status >= 500
           /\ req[r].written = <<>>

\* No relay destination is configured for the application.
NoDestination == app.reply_url = None \/ app.reply_url = ""

\* C5 (as claimed): a delivery is attempted iff the data is present and a
\* non-empty destination is configured; with no destination (the empty string
\* or the constructor's default) none is attempted and the handler goes on to
\* write the response.
C5_RelayIffDataAndDestination ==
    \A r \in Requests :
        (running = r /\ pc[r] \in {"respond", "done", "failed"} /\ PastMetrics(r))
        => /\ req[r].sent # <<>> <=> (req[r].response.data # None /\ ~NoDestination)
           /\ NoDestination => ~Failed(r)

\* C6: every relayed event has a non-empty id, the inbound id when that is
\* present and non-empty and a generated one otherwise, and the inbound
\* event's extensions.
C6_ReplyEventIdAndExtensions ==
    \A r \in Requests : \A i \in 1..Len(req[r].sent) :
        LET out == req[r].sent[i].event
            inb == req[r].event
        IN  /\ out.id # None /\ out.id # ""
            /\ (inb.id # None /\ inb.id # "") => out.id = inb.id
            /\ (inb.id = None \/ inb.id = "") => out.id \in Uuid1Hex
            /\ out.ext = inb.ext

\* C6 witness: an event with an empty id and extensions a, b has been relayed.
C6_Witness ==
    \E r \in Requests :
        /\ req[r].sent # <<>>
        /\ req[r].event.id = ""
        /\ req[r].event.ext = {<<"a", "1">>, <<"b", "2">>}
        /\ req[r].sent[1].event.id \in Uuid1Hex

\* C7: when the handler returns without error and the data is present, the
\* response body is the JSON encoding of the data, written once, and after
\* the relay when there is one.
C7_ResponseIsJsonOfData ==
    \A r \in Requests :
        /\ (Done(r) /\ req[r].response.data # None) =>
              /\ req[r].written = <<json_dumps(req[r].response.data)>>
              /\ req[r].status = 200
              /\ RelayActive(app.reply_url) => req[r].sent # <<>>
        /\ req[r].written # <<>> => Done(r)

\* C7 witness: a request with data and a relay has been answered.
C7_Witness ==
    \E r \in Requests :
        /\ Done(r)
        /\ req[r].response.data = "{'is_drift': 1}"
        /\ req[r].sent # <<>>
        /\ req[r].written = <<"{\"is_drift\": 1}">>

\* The payload's predicted and actual sequences differ in length.
LengthMismatch(r) ==
    running = r /\ req[r].body.kind = "payload" /\ req[r].body.npred # req[r].body.nact

\* C8: a request whose predicted and actual sequences differ in length never
\* gets past extraction: it ends with a 5xx (raised by extraction wherever the
\* protocol has an extractor), the model is not invoked, the registry is
\* unchanged.
C8_LengthMismatchFails ==
    \A r \in Requests :
        LengthMismatch(r) =>
            /\ pc[r] \in {"parse", "resolve", "validate", "extract", "failed"}
            /\ req[r].invoked = <<>>
            /\ registry = req[r].reg0
            /\ Failed(r) => /\ req[r].status >= 500
                            /\ get_request_handler(app.protocol)
                                 => req[r].error.type = "MalformedPayload"

\* C8 witness: a request with predicted shorter than actual has failed at
\* extraction, after an earlier request changed the registry.
C8_Witness ==
    \E r \in Requests :
        /\ LengthMismatch(r)
        /\ req[r].body.npred < req[r].body.nact
        /\ Failed(r)
        /\ req[r].error.type = "MalformedPayload"
        /\ registry # EmptyRegistry

\* C9: a request whose JSON body fails the extractor's validate ends with a
\* 400; nothing is extracted, the model is not invoked, the registry is not
\* updated, nothing is relayed.
C9_ValidateFailureIs400 ==
    \A r \in Requests :
        (running = r /\ req[r].body.kind = "invalid") =>
            /\ pc[r] \in {"parse", "resolve", "validate", "failed"}
            /\ req[r].inputs = <<>>
            /\ req[r].invoked = <<>>
            /\ req[r].sent = <<>>
            /\ registry = req[r].reg0
            /\ (Failed(r) /\ get_request_handler(app.protocol)) =>
                  req[r].error = HTTPError(400) /\ req[r].status = 400

\* C9 witness: validate has refused a body.
C9_Witness ==
    \E r \in Requests :
        /\ Failed(r)
        /\ req[r].body.kind = "invalid"
        /\ get_request_handler(app.protocol)
        /\ req[r].status = 400

\* C10: register_model refuses a model with an empty name and leaves the
\* registered model as it was, and registers any other model; start with an
\* empty-named model fails with no application created and no port bound.
C10_RegisterModel ==
    [][(last_call = NoCall /\ last_call' # NoCall) =>
        LET c == last_call' IN
        /\ c.op = "register_model" =>
              IF ModelName(c.model) = ""
              THEN c.raised /\ registered_model' = registered_model
              ELSE ~c.raised /\ registered_model' = c.model
        /\ (c.op = "start" /\ ModelName(c.model) = "") =>
              /\ c.raised
              /\ registered_model' = registered_model
              /\ app' = app
              /\ http_server' = http_server]_vars

\* C10 witness: register_model has refused an empty-named model on a server
\* that has a model registered.
C10_Witness ==
    /\ last_call = [op |-> "register_model", model |-> "m_empty", raised |-> TRUE]
    /\ registered_model = "mA"

\* C11: whatever the order of register_model, create_application, start and
\* the requests, a model whose process_event has been called is a model that
\* register_model had accepted before.
C11_InvokedModelWasRegistered ==
    \A r \in Requests : \A i \in 1..Len(req[r].invoked) :
        /\ req[r].invoked[i] \in registered
        /\ ~NameMissing(req[r].invoked[i])

\* C11 witness: a request is handled by mA, registered and put into the
\* application before mB was registered.
C11_Witness ==
    \E r \in Requests :
        /\ req[r].invoked = <<"mA">>
        /\ registered_model = "mB"

\* C12 (as claimed): once a model is registered the registered model never
\* changes (no second model is ever accepted), the event-intake route uses
\* the server's registered model, and every event is processed by it.
C12_OneModelForLife ==
    /\ Cardinality(registered) <= 1
    /\ app.created => app.model = registered_model
    /\ \A r \in Requests : \A i \in 1..Len(req[r].invoked) :
          req[r].invoked[i] = registered_model

\* C13 (as claimed): a protocol without an extractor is refused when the
\* server is constructed, so no server serves one and no request ever fails
\* on an unknown protocol.
C13_UnknownProtocolAtConstruction ==
    /\ app.created => get_request_handler(app.protocol)
    /\ \A r \in Requests : req[r].error.type # "Exception: Unknown protocol"

\* C14: within one request process_event is called at most once and at most
\* one relay delivery is attempted, whatever either call did.
C14_NoRetries ==
    \A r \in Requests :
        /\ Len(req[r].invoked) <= 1
        /\ Len(req[r].sent) <= 1

\* C14 witness: a request has ended on a failed delivery, after one model
\* call and one delivery attempt.
C14_Witness ==
    \E r \in Requests :
        /\ Failed(r)
        /\ Len(req[r].invoked) = 1
        /\ Len(req[r].sent) = 1
        /\ sendCloudEvent(req[r].sent[1].outcome)

\* The requests between dispatch and the end of their handling.
InFlight == {r \in Requests : pc[r] \notin {"pending", "finished"}}

\* The registry as request r's handler can have left it: as it found it, or
\* with the whole batch of its model response merged.
RegistryOfRequest(r) ==
    LET resp == req[r].response
    IN  {req[r].reg0} \cup
        (IF resp.returned /\ ~resp.is_none /\ ~resp.metrics.is_none
         THEN {bdilab_update(req[r].reg0, resp.metrics.batch)} ELSE {})

\* C15: at most one request is between dispatch and its end, and it is the
\* one the loop is running; no other request has made any progress, no GET
\* handler runs meanwhile, the registry differs from what the running request
\* found by a whole batch of its own at most, and the exposition is the
\* registry as it stands between requests.
C15_NoInterleaving ==
    /\ Cardinality(InFlight) <= 1
    /\ InFlight = IF running = 0 THEN {} ELSE {running}
    /\ get_resp # NoGet => running = 0
    /\ \A r \in Requests \ InFlight : req[r] = BlankRequest
    /\ \A r \in InFlight : registry \in RegistryOfRequest(r)
    /\ get_resp.route = "/v1/metrics" => get_resp.body = generate_metrics(registry).body

\* C15 witness: a request stands at its relay call with its metrics merged
\* while another request is still pending.
C15_Witness ==
    \E r, q \in Requests :
        /\ r # q
        /\ At(r, "relay")
        /\ registry # req[r].reg0
        /\ pc[q] = "pending"

\* The registry once request r's metrics step is over.
RegistryAfterMetrics(r) ==
    LET resp == req[r].response
    IN  IF ~resp.metrics.is_none /\ validate_metrics(resp.metrics.batch)
        THEN bdilab_update(req[r].reg0, resp.metrics.batch)
        ELSE req[r].reg0

\* C17: the model is called only after parsing, resolution, validate,
\* extract and the envelope succeeded; the registry is updated only after the
\* model returned; a delivery is attempted only after the metrics step; the
\* body is written only after the relay, if any, succeeded; and a step that
\* fails leaves every later step undone.
C17_StepOrder ==
    \A r \in Requests :
        LET q == req[r] IN
        /\ q.invoked # <<>> =>
              /\ q.body.kind = "payload"
              /\ get_request_handler(app.protocol)
              /\ validate(q.body) /\ extract_request(q.body)
              /\ q.inputs # <<>>
              /\ q.event.parsed
        /\ (running = r /\ registry # q.reg0) =>
              q.response.returned /\ q.invoked # <<>>
        /\ q.sent # <<>> =>
              /\ q.response.returned /\ ~q.response.is_none
              /\ pc[r] \in {"respond", "done", "failed"}
              /\ registry = RegistryAfterMetrics(r)
        /\ q.written # <<>> =>
              /\ pc[r] = "done"
              /\ RelayActive(app.reply_url) =>
                    q.sent # <<>> /\ ~sendCloudEvent(q.sent[1].outcome)
        /\ Failed(r) =>
              /\ q.written = <<>>
              /\ (~q.response.returned /\ q.error.type # "ModelError") => q.invoked = <<>>
              /\ (~q.response.returned \/ q.response.is_none) =>
                    registry = q.reg0 /\ q.sent = <<>>

\* C17 witness: a request went through every step: model, metrics merged,
\* delivery, body written.
C17_Witness ==
    \E r \in Requests :
        /\ Done(r)
        /\ req[r].invoked # <<>>
        /\ registry # req[r].reg0
        /\ req[r].sent # <<>>
        /\ req[r].written # <<>>

\* The request's model response carries a batch that passes validation and
\* is not empty.
AcceptedBatch(r) ==
    /\ running = r
    /\ req[r].response.returned
    /\ ~req[r].response.is_none
    /\ ~req[r].response.metrics.is_none
    /\ req[r].response.metrics.batch # <<>>
    /\ validate_metrics(req[r].response.metrics.batch)

\* C18: a request whose valid batch was merged and whose delivery then failed
\* ends with a server error and the registry still holding the batch; the end
\* of the request does not change the registry, and GET /v1/metrics answers
\* with the registry as it stands; a request that failed before its metrics
\* step left the registry as it found it.
C18_NoRollback ==
    [][/\ \A r \in Requests :
            /\ (Failed(r) /\ AcceptedBatch(r)) =>
                  /\ req[r].sent # <<>>
                  /\ req[r].status = 500
                  /\ registry = bdilab_update(req[r].reg0, req[r].response.metrics.batch)
                  /\ registry # req[r].reg0
            /\ (Failed(r) /\ ~req[r].response.returned) => registry = req[r].reg0
            /\ Terminal(r) => registry' = registry
       /\ (get_resp = NoGet /\ get_resp'.route = "/v1/metrics") =>
             get_resp'.body = generate_metrics(registry).body]_vars

\* C18 witness: a request with a merged batch has ended on a failed delivery.
C18_Witness ==
    \E r \in Requests :
        /\ Failed(r)
        /\ AcceptedBatch(r)
        /\ req[r].sent # <<>>
        /\ registry # req[r].reg0

\* The steps of post() in the order of its lines, the two ends last.
Steps ==
    <<"pending", "parse", "resolve", "validate", "extract", "envelope",
      "invoke", "metrics", "relay", "respond", "done", "failed", "finished">>

Rank(p) == CHOOSE i \in 1..Len(Steps) : Steps[i] = p

\* Every change to a request moves it to a later step; an ended request only
\* leaves.
C16_Forward ==
    \A r \in Requests :
        /\ (pc'[r] # pc[r] \/ req'[r] # req[r]) => Rank(pc'[r]) > Rank(pc[r])
        /\ Terminal(r) => pc'[r] \in {pc[r], "finished"}

\* C16: a request the handler has taken up reaches an end, which is either
\* the written response (status 200, no error) or an error response (status
\* 400 or 500, nothing written), never both; and no step of a request goes
\* back to an earlier step or repeats its own.
C16_ReachesOneTerminal ==
    /\ (\E r \in Requests : running = r /\ ~Terminal(r)) ~> (\E r \in Requests : Terminal(r))
    /\ [][C16_Forward]_vars
    /\ [](\A r \in Requests :
            /\ Done(r) => req[r].error = NoError /\ req[r].status = 200
            /\ Failed(r) => /\ req[r].error # NoError
                            /\ req[r].status \in {400, 500}
                            /\ req[r].written = <<>>)

\* C16 witness: one request has ended with its response written after the
\* model call and a delivery, the other has ended and left.
C16_Witness ==
    \E r, q \in Requests :
        /\ r # q
        /\ Done(r) /\ req[r].invoked # <<>> /\ req[r].sent # <<>>
        /\ pc[q] = "finished"

====
